---- MODULE Spec2Model ----
(***************************************************************************)
(* fastform: the NDC -> RxCUI resolver with its JSON file cache            *)
(* (ndc_to_rxcui.py) and the CMS formulary ingestion (ingest_cms.py).      *)
(*                                                                         *)
(* A Python str is a sequence of tokens.  A token is one whitespace        *)
(* character " ", one dash "-", or an indivisible run of other characters  *)
(* ("1", "TIER", ".csv").  The empty str is << >>.                         *)
(***************************************************************************)
EXTENDS Integers, Sequences, FiniteSets, TLC

VARIABLES
    cache,      \* ndc_to_rxcui._cache : the in-memory dict of this process
    file,       \* data/.rxnorm_ndc_cache.json on disk
    loaded,     \* _cache as the import of the module left it (lines 9-14)
    last,       \* the most recent direct call of ndc_to_rxcui, as its caller saw it
    ideal,      \* the same calls and responses in a process all of whose writes succeed
    pc,         \* where ingest_to_rules is: idle, loop, returned, raised
    input,      \* input_path: its name, an archive's entry names, its table's header
    opened,     \* what the generator _open_formulary_rows has opened
    table,      \* the opened table: its header, and the lines read so far
    n_in,       \* rows_read
    n_out,      \* rows_written
    out_file,   \* the file at out_path
    result      \* what ingest_to_rules returned or raised

vars == <<cache, file, loaded, last, ideal, pc, input, opened, table,
          n_in, n_out, out_file, result>>

resolverVars == <<cache, file, loaded, last, ideal>>
ingestVars == <<pc, input, opened, table, n_in, n_out, out_file, result>>

----------------------------------------------------------------------------
(* str and Optional[str] *)

RECURSIVE LStrip(_)
LStrip(s) == IF s # << >> /\ Head(s) = " " THEN LStrip(Tail(s)) ELSE s

RECURSIVE RStrip(_)
RStrip(s) ==
    IF s # << >> /\ s[Len(s)] = " " THEN RStrip(SubSeq(s, 1, Len(s) - 1)) ELSE s

\* str.strip()
Strip(s) == RStrip(LStrip(s))

\* str.replace("-", "")
RemoveDashes(s) == SelectSeq(s, LAMBDA c : c # "-")

\* None, and a str value
NoneV == [some |-> FALSE, s |-> << >>]
Str(s) == [some |-> TRUE, s |-> s]

\* bool(v): None and "" are falsy
Truthy(v) == v.some /\ v.s # << >>

\* a or b
Or(a, b) == IF Truthy(a) THEN a ELSE b

EmptyDict == [k \in {} |-> NoneV]

\* d[k] = v
Put(d, k, v) == [x \in DOMAIN d \cup {k} |-> IF x = k THEN v ELSE d[x]]

----------------------------------------------------------------------------
(* The cache file: json.dumps / json.loads of a dict of str -> str | None *)

JsonValue(v) == IF v.some THEN <<"\"">> \o v.s \o <<"\"">> ELSE <<"null">>

PyValue(j) == IF j = <<"null">> THEN NoneV ELSE Str(SubSeq(j, 2, Len(j) - 1))

Dumps(d) == [k \in DOMAIN d |-> JsonValue(d[k])]

Loads(t) == [k \in DOMAIN t |-> PyValue(t[k])]

NoFile == [kind |-> "absent", text |-> Dumps(EmptyDict)]
CorruptFile == [kind |-> "corrupt", text |-> Dumps(EmptyDict)]
JsonFile(d) == [kind |-> "json", text |-> Dumps(d)]

\* How _CACHE.write_text can end: written; open() fails and the file is as it
\* was; open() has truncated the file and the write fails part-way.
WriteOutcomes == {"written", "open_fails", "write_fails"}

\* _save without its try/except
_saveUnguarded(c, f, w) ==
    [file   |-> CASE w = "written" -> JsonFile(c)
                  [] w = "open_fails" -> f
                  [] OTHER -> CorruptFile,
     raised |-> w # "written"]

\* _save writing the resolved entries only
_saveResolvedOnly(c, f, w) ==
    [file   |-> CASE w = "written" ->
                       JsonFile([k \in {x \in DOMAIN c : c[x].some} |-> c[k]])
                  [] w = "open_fails" -> f
                  [] OTHER -> CorruptFile,
     raised |-> FALSE]

\* _save(): the file afterwards, and whether an exception leaves _save
_save(c, f, w) ==
    [file   |-> CASE w = "written" -> JsonFile(c)
                  [] w = "open_fails" -> f
                  [] OTHER -> CorruptFile,
     raised |-> FALSE]

\* An import that drops the null entries of the file
LoadCacheResolvedOnly(f) ==
    IF f.kind = "json"
    THEN [k \in {x \in DOMAIN f.text : f.text[x] # <<"null">>} |-> PyValue(f.text[k])]
    ELSE EmptyDict

\* Module import: _cache = {} unless the file exists and parses
LoadCache(f) == IF f.kind = "json" THEN Loads(f.text) ELSE EmptyDict

----------------------------------------------------------------------------
(* The remote lookup service *)

ID1 == <<"111">>
ID2 == <<"222">>

\* One attempt: an exception (network error, timeout, a body that is no JSON
\* object, an idGroup that is no object), or a body whose idGroup.rxnormId is
\* absent, a str, or a list.
Failure == [err |-> TRUE, t |-> "absent", v |-> << >>]
Body(t, v) == [err |-> FALSE, t |-> t, v |-> v]

Responses ==
    { Failure,
      Body("absent", << >>),
      Body("str", <<ID1>>),
      Body("list", << >>),
      Body("list", <<ID1>>),
      Body("list", << << >> >>),
      Body("list", <<ID1, ID2>>) }

\* range(4)
AttemptsOneMore == 3 + 1

\* range(3)
Attempts == 3

\* What the service answers to attempts 1..3 of one call: some failures, then
\* a body, then (were it asked again) the same answer every time.
Later == {Failure, Body("list", <<ID2>>)}

Scripts ==
    { s \in [1..Attempts -> Responses \cup Later] :
        \E k \in 0..Attempts, d \in Later :
            /\ \A i \in 1..Attempts : i <= k => s[i] = Failure
            /\ k < Attempts => s[k + 1] \in Responses \ {Failure}
            /\ \A i \in 1..Attempts : i > k + 1 => s[i] = d }

\* rxcui[-1] instead of rxcui[0]
ExtractLast(resp) ==
    IF resp.t = "list" /\ resp.v # << >> THEN Str(resp.v[Len(resp.v)]) ELSE NoneV

\* val = rxcui[0] if isinstance(rxcui, list) and rxcui else None
Extract(resp) ==
    IF resp.t = "list" /\ resp.v # << >> THEN Str(resp.v[1]) ELSE NoneV

\* key without .strip()
KeyUnstripped(ndc) == RemoveDashes(ndc)

\* key = ndc.replace("-", "").strip()
Key(ndc) == Strip(RemoveDashes(ndc))

\* return _cache[key] or None
CachedValue(c, key) == Or(c[key], NoneV)

Outcome(c, f, ret, raised, hit, nreq, nins, nsave) ==
    [cache |-> c, file |-> f, ret |-> ret, raised |-> raised, hit |-> hit,
     requests |-> nreq, inserts |-> nins, saves |-> nsave]

\* for _ in range(3): ... , then the lines after the loop
RECURSIVE Attempt(_, _, _, _, _, _, _, _, _)
Attempt(i, c, f, key, script, w, nreq, nins, nsave) ==
    IF i > Attempts
    THEN LET c2 == Put(c, key, NoneV)
             sv == _save(c2, f, w)
         IN  Outcome(c2, sv.file, NoneV, sv.raised, FALSE, nreq, nins + 1, nsave + 1)
    ELSE IF script[i].err
    THEN Attempt(i + 1, c, f, key, script, w, nreq + 1, nins, nsave)
    ELSE LET val == Extract(script[i])
             c2 == Put(c, key, val)
             sv == _save(c2, f, w)
         IN  IF sv.raised
             THEN Attempt(i + 1, c2, sv.file, key, script, w,
                          nreq + 1, nins + 1, nsave + 1)
             ELSE Outcome(c2, sv.file, val, FALSE, FALSE,
                          nreq + 1, nins + 1, nsave + 1)

ndc_to_rxcui(c, f, ndc, script, w) ==
    LET key == Key(ndc)
    IN  IF key = << >> THEN Outcome(c, f, NoneV, FALSE, FALSE, 0, 0, 0)
        ELSE IF key \in DOMAIN c
        THEN Outcome(c, f, CachedValue(c, key), FALSE, TRUE, 0, 0, 0)
        ELSE Attempt(1, c, f, key, script, w, 0, 0, 0)

----------------------------------------------------------------------------
(* Direct calls of the resolver, and process restarts *)

Codes ==
    { << >>, <<" ", "-", " ">>, <<"1">>, <<"-", "1", " ">>, <<"2">> }

NoScript == [i \in 1..Attempts |-> Failure]

NoCall ==
    [called |-> FALSE, ndc |-> << >>, script |-> NoScript, w |-> "written",
     ret |-> NoneV, raised |-> FALSE,
     hit |-> FALSE, requests |-> 0, inserts |-> 0, saves |-> 0]

NoIdeal == [cache |-> EmptyDict, ret |-> NoneV, raised |-> FALSE, requests |-> 0]

\* Whether a call for this code goes to the service
Misses(c, ndc) == Key(ndc) # << >> /\ Key(ndc) \notin DOMAIN c

Call(ndc, script, w) ==
    /\ pc = "idle"
    /\ LET o == ndc_to_rxcui(cache, file, ndc, script, w)
           t == ndc_to_rxcui(ideal.cache, NoFile, ndc, script, "written")
       IN  /\ cache' = o.cache
           /\ file' = o.file
           /\ loaded' = loaded
           /\ last' = [called |-> TRUE, ndc |-> ndc, script |-> script, w |-> w,
                       ret |-> o.ret,
                       raised |-> o.raised, hit |-> o.hit,
                       requests |-> o.requests, inserts |-> o.inserts,
                       saves |-> o.saves]
           /\ ideal' = [cache |-> t.cache, ret |-> t.ret, raised |-> t.raised,
                        requests |-> t.requests]
    /\ UNCHANGED ingestVars

\* The process ends and a new one imports the module
Restart ==
    /\ pc = "idle"
    /\ cache' = LoadCache(file)
    /\ loaded' = LoadCache(file)
    /\ ideal' = [NoIdeal EXCEPT !.cache = LoadCache(file)]
    /\ last' = NoCall
    /\ UNCHANGED <<file>>
    /\ UNCHANGED ingestVars

NoInput == [path |-> << >>, names |-> << >>, header |-> << >>]
NoTable == [header |-> << >>, lines |-> << >>]
NoOutput == [exists |-> FALSE, lines |-> << >>]
NoResult == [kind |-> "none", error |-> "", rows_read |-> 0, rows_written |-> 0]

Init ==
    /\ cache = EmptyDict
    /\ file = NoFile
    /\ loaded = EmptyDict
    /\ last = NoCall
    /\ ideal = NoIdeal
    /\ pc = "idle"
    /\ input = NoInput
    /\ opened = << >>
    /\ table = NoTable
    /\ n_in = 0
    /\ n_out = 0
    /\ out_file = NoOutput
    /\ result = NoResult

Next ==
    \/ \E ndc \in Codes :
          IF Misses(cache, ndc)
          THEN \E script \in Scripts, w \in WriteOutcomes : Call(ndc, script, w)
          ELSE Call(ndc, NoScript, "written")
    \/ Restart

Spec == Init /\ [][Next]_vars

----------------------------------------------------------------------------
(* ingest_cms.py: the table locator *)

\* str.lower(), token by token
Lower(tok) ==
    CASE tok \in {"FORMULARY", "Formulary"} -> "formulary"
      [] tok = ".CSV" -> ".csv"
      [] tok = ".ZIP" -> ".zip"
      [] OTHER -> tok

Extensions == {".zip", ".ZIP", ".csv", ".CSV", ".txt", ".bak"}

\* path.suffix
Suffix(path) ==
    IF path # << >> /\ path[Len(path)] \in Extensions THEN path[Len(path)] ELSE ""

\* "formulary" in n.lower() and n.lower().endswith(".csv")
LooksLikeFormulary(n) ==
    /\ \E i \in 1..Len(n) : Lower(n[i]) = "formulary"
    /\ n # << >> /\ Lower(n[Len(n)]) = ".csv"

\* cand = [n for n in z.namelist() if ...]
Candidates(names) == SelectSeq(names, LooksLikeFormulary)

IsZip(inp) == Lower(Suffix(inp.path)) = ".zip"

\* Whether _open_formulary_rows raises before it reads a table
NoTableFound(inp) == IsZip(inp) /\ Candidates(inp.names) = << >>

\* The entry (or the flat file) the reader is opened on
Opened(inp) == IF IsZip(inp) THEN Candidates(inp.names)[1] ELSE inp.path

----------------------------------------------------------------------------
(* ingest_cms.py: csv.DictReader and the stripping of each row *)

\* DictReader leaves the cells beyond the header under the key None, and
\* k.strip() of that key raises AttributeError
HasRestKey(header, line) == Len(line) > Len(header)

\* DictReader skips a line with no cell at all
IsBlank(line) == line = << >>

ColumnOf(header, k) ==
    CHOOSE i \in 1..Len(header) :
        /\ Strip(header[i]) = k
        /\ \A j \in 1..Len(header) : Strip(header[j]) = k => j <= i

\* {k.strip(): (v.strip() if isinstance(v, str) else v) for k, v in row.items()}
\* where a column the line is too short for holds None
ToRow(header, line) ==
    [k \in {Strip(header[i]) : i \in 1..Len(header)} |->
        IF ColumnOf(header, k) <= Len(line)
        THEN Str(Strip(line[ColumnOf(header, k)]))
        ELSE NoneV]

\* r.get(k) and r.get(k, default)
Get(r, k) == IF k \in DOMAIN r THEN r[k] ELSE NoneV
GetOr(r, k, default) == IF k \in DOMAIN r THEN r[k] ELSE default

----------------------------------------------------------------------------
(* ingest_cms.py: one row *)

CONTRACT_ID == <<"CONTRACT_ID">>
PARENT_ORGANIZATION_CONTRACT_ID == <<"PARENT_ORGANIZATION_CONTRACT_ID">>
PLAN_ID == <<"PLAN_ID">>
PBP == <<"PBP">>
NDC == <<"NDC">>
NDC_11 == <<"NDC_11">>
TIER == <<"TIER">>
FORMULARY_TIER == <<"FORMULARY_TIER">>
PRIOR_AUTHORIZATION_FLAG == <<"PRIOR_AUTHORIZATION_FLAG">>
STEP_THERAPY_FLAG == <<"STEP_THERAPY_FLAG">>
QUANTITY_LIMIT_FLAG == <<"QUANTITY_LIMIT_FLAG">>
QL_QTY == <<"QL_QTY">>
QL_DAYS == <<"QL_DAYS">>

\* str.upper(), token by token
Upper(tok) ==
    CASE tok = "y" -> "Y"
      [] tok = "yes" -> "YES"
      [] tok = "true" -> "TRUE"
      [] tok = "t" -> "T"
      [] OTHER -> tok

\* str(v).strip().upper() in {"Y","YES","TRUE","T","1"}
_norm_bool(v) ==
    LET text == Strip(IF v.some THEN v.s ELSE <<"None">>)
    IN  Len(text) = 1 /\ Upper(text[1]) \in {"Y", "YES", "TRUE", "T", "1"}

contract(r) == Or(Get(r, CONTRACT_ID), Get(r, PARENT_ORGANIZATION_CONTRACT_ID))
plan(r) == Or(Get(r, PLAN_ID), Get(r, PBP))
ndc(r) == RemoveDashes(Or(Or(Get(r, NDC), Get(r, NDC_11)), Str(<< >>)).s)
tier(r) == Or(Get(r, TIER), Get(r, FORMULARY_TIER))

\* The skip test without "not tier"
SkippedUnlessTierMissing(r) ==
    \/ ~Truthy(contract(r))
    \/ ~Truthy(plan(r))
    \/ ndc(r) = << >>

\* if not contract or not plan or not ndc or not tier: continue
Skipped(r) ==
    \/ ~Truthy(contract(r))
    \/ ~Truthy(plan(r))
    \/ ndc(r) = << >>
    \/ ~Truthy(tier(r))

\* What csv.writer writes for a bool
BoolText(b) == IF b THEN <<"True">> ELSE <<"False">>

\* The row writer.writerow writes for r once its code is resolved
Rule(r, rxcui) ==
    [plan_id |-> contract(r).s \o <<"-">> \o plan(r).s,
     rxcui |-> rxcui.s,
     drug_name |-> << >>,
     strength |-> << >>,
     route |-> << >>,
     tier |-> tier(r).s,
     pa |-> BoolText(_norm_bool(GetOr(r, PRIOR_AUTHORIZATION_FLAG, Str(<<"N">>)))),
     st |-> BoolText(_norm_bool(GetOr(r, STEP_THERAPY_FLAG, Str(<<"N">>)))),
     ql |-> BoolText(_norm_bool(GetOr(r, QUANTITY_LIMIT_FLAG, Str(<<"N">>)))),
     ql_max_qty |-> Or(Get(r, QL_QTY), Str(<< >>)).s,
     ql_per_days |-> Or(Get(r, QL_DAYS), Str(<< >>)).s,
     alt_rxcui |-> << >>,
     notes |-> <<"CMS-PUF">>]

\* The header line of the output
HEADER ==
    [plan_id |-> <<"plan_id">>, rxcui |-> <<"rxcui">>, drug_name |-> <<"drug_name">>,
     strength |-> <<"strength">>, route |-> <<"route">>, tier |-> <<"tier">>,
     pa |-> <<"pa">>, st |-> <<"st">>, ql |-> <<"ql">>,
     ql_max_qty |-> <<"ql_max_qty">>, ql_per_days |-> <<"ql_per_days">>,
     alt_rxcui |-> <<"alt_rxcui">>, notes |-> <<"notes">>]

----------------------------------------------------------------------------
(* The inputs of an ingestion *)

MaxRows == 2

Readme == <<"readme", ".txt">>
Data2024 == <<"2024_", "Formulary", "_data", ".CSV">>
Backup == <<"formulary", ".csv", ".bak">>
Plans == <<"plans", ".csv">>
Other == <<"other_", "formulary", ".csv">>

\* A flat file, a flat file without a tier column, an archive whose second
\* entry is the table, and two archives without one
Inputs ==
    { [path |-> <<"formulary", ".csv">>, names |-> << >>,
       header |-> <<CONTRACT_ID, PLAN_ID, <<" ", "NDC">>, TIER>>],
      [path |-> <<"plans", ".CSV">>, names |-> << >>,
       header |-> <<CONTRACT_ID, PLAN_ID, NDC>>],
      [path |-> <<"puf", ".ZIP">>, names |-> <<Readme, Data2024, Other>>,
       header |-> <<CONTRACT_ID, PARENT_ORGANIZATION_CONTRACT_ID, PBP, NDC_11,
                    FORMULARY_TIER, PRIOR_AUTHORIZATION_FLAG>>],
      [path |-> <<"puf", ".zip">>, names |-> <<Readme, Backup, Plans>>,
       header |-> << >>],
      [path |-> <<"puf", ".zip">>, names |-> << >>, header |-> << >>] }

Cells(contractCell, parentCell, planCell, ndcCell, tierCell, flagCell) ==
    [contract |-> contractCell, parent |-> parentCell, plan |-> planCell,
     ndc |-> ndcCell, tier |-> tierCell, flag |-> flagCell]

Full == Cells(<<"H1">>, << >>, <<"001">>, <<"1">>, <<"3">>, <<"N">>)

\* What a data line holds, column by column
Contents ==
    { Cells(c, << >>, p, <<"1">>, t, <<"N">>) :
        c \in {<< >>, <<"H1">>}, p \in {<< >>, <<"001">>}, t \in {<< >>, <<"3">>} }
    \cup { [Full EXCEPT !.ndc = n] :
             n \in {<< >>, <<"-">>, <<"-", " ", "-">>, <<"2", "-">>} }
    \cup { [Full EXCEPT !.contract = << >>, !.parent = <<"H2">>],
           [Full EXCEPT !.tier = <<" ">>],
           [Full EXCEPT !.flag = <<" ", "y">>] }

CellFor(name, content) ==
    CASE Strip(name) \in {CONTRACT_ID} -> content.contract
      [] Strip(name) \in {PARENT_ORGANIZATION_CONTRACT_ID} -> content.parent
      [] Strip(name) \in {PLAN_ID, PBP} -> content.plan
      [] Strip(name) \in {NDC, NDC_11} -> content.ndc
      [] Strip(name) \in {TIER, FORMULARY_TIER} -> content.tier
      [] OTHER -> content.flag

LineOf(header, content) == [i \in 1..Len(header) |-> CellFor(header[i], content)]

\* The lines a table under this header may hold: one per content, a blank
\* line, a line cut after its first cell, one cut before its last, and a line
\* with a cell too many
Lines(header) ==
    { LineOf(header, content) : content \in Contents }
    \cup { << >> }
    \cup { SubSeq(LineOf(header, Full), 1, n) : n \in {1, Len(header) - 1} }
    \cup { LineOf(header, Full) \o << <<"x">> >> }

\* What the service answers during an ingestion
IngestScripts ==
    { [i \in 1..Attempts |-> Failure],
      [i \in 1..Attempts |-> Body("list", <<ID1>>)],
      [i \in 1..Attempts |-> IF i < Attempts THEN Failure ELSE Body("list", <<ID1, ID2>>)],
      [i \in 1..Attempts |-> Body("list", << << >> >>)],
      [i \in 1..Attempts |-> Body("str", <<ID1>>)] }

\* How the writes of the cache file end during an ingestion
IngestWrites == {"written", "write_fails"}

----------------------------------------------------------------------------
(* ingest_to_rules *)

Raised(error) ==
    [kind |-> "raised", error |-> error, rows_read |-> 0, rows_written |-> 0]
Returned(read, written) ==
    [kind |-> "returned", error |-> "", rows_read |-> read, rows_written |-> written]

\* Lines 40-47 and the start of the generator at the first pass of the loop.
\* _open_formulary_rows is a generator: line 41 runs none of its body, so the
\* output is opened for writing and given its header before the input is
\* looked at.  (mkdir of the parent directory changes nothing modelled here.)
IngestBegin(inp) ==
    /\ pc = "idle"
    /\ input' = inp
    /\ n_in' = 0
    /\ n_out' = 0
    /\ out_file' = [exists |-> TRUE, lines |-> <<HEADER>>]
    /\ IF NoTableFound(inp)
       THEN /\ pc' = "raised"
            /\ result' = Raised("RuntimeError: No *formulary*.csv found inside ZIP")
            /\ opened' = << >>
            /\ table' = NoTable
       ELSE /\ pc' = "loop"
            /\ result' = NoResult
            /\ opened' = Opened(inp)
            /\ table' = [header |-> inp.header, lines |-> << >>]
    /\ UNCHANGED resolverVars

\* One line of the table: skipped by the reader, fatal to it, or one pass of
\* the loop body
IngestLine(line, script, w) ==
    /\ pc = "loop"
    /\ Len(table.lines) < MaxRows
    /\ table' = [table EXCEPT !.lines = Append(@, line)]
    /\ UNCHANGED <<input, opened, loaded, last, ideal>>
    /\ IF IsBlank(line)
       THEN UNCHANGED <<pc, n_in, n_out, out_file, result, cache, file>>
       ELSE IF HasRestKey(table.header, line)
       THEN /\ pc' = "raised"
            /\ result' = Raised("AttributeError")
            /\ UNCHANGED <<n_in, n_out, out_file, cache, file>>
       ELSE LET r == ToRow(table.header, line)
                o == ndc_to_rxcui(cache, file, ndc(r), script, w)
            IN  /\ n_in' = n_in + 1
                /\ UNCHANGED <<pc, result>>
                /\ IF Skipped(r)
                   THEN UNCHANGED <<n_out, out_file, cache, file>>
                   ELSE /\ cache' = o.cache
                        /\ file' = o.file
                        /\ IF ~Truthy(o.ret)
                           THEN UNCHANGED <<n_out, out_file>>
                           ELSE /\ n_out' = n_out + 1
                                /\ out_file' = [out_file EXCEPT
                                       !.lines = Append(@, Rule(r, o.ret))]

\* Whether the loop body for this line reaches the service
Resolves(c, header, line) ==
    /\ ~IsBlank(line) /\ ~HasRestKey(header, line)
    /\ ~Skipped(ToRow(header, line))
    /\ Misses(c, ndc(ToRow(header, line)))

\* The reader is exhausted: return n_in, n_out
IngestEnd ==
    /\ pc = "loop"
    /\ pc' = "returned"
    /\ result' = Returned(n_in, n_out)
    /\ UNCHANGED <<input, opened, table, n_in, n_out, out_file>>
    /\ UNCHANGED resolverVars

\* An earlier run's output and cache
OldOutput ==
    [exists |-> TRUE,
     lines |-> <<HEADER, Rule(ToRow(<<CONTRACT_ID, PLAN_ID, NDC, TIER>>,
                                    <<<<"H0">>, <<"009">>, <<"9">>, <<"1">>>>),
                              Str(ID2))>>]

EarlierCaches ==
    { EmptyDict,
      Put(EmptyDict, <<"1">>, NoneV),
      Put(Put(EmptyDict, <<"1">>, Str(ID1)), <<"2">>, Str(<< >>)) }

IngestInit ==
    /\ cache \in EarlierCaches
    /\ file = JsonFile(cache)
    /\ loaded = cache
    /\ last = NoCall
    /\ ideal = [NoIdeal EXCEPT !.cache = cache]
    /\ pc = "idle"
    /\ input = NoInput
    /\ opened = << >>
    /\ table = NoTable
    /\ n_in = 0
    /\ n_out = 0
    /\ out_file \in {NoOutput, OldOutput}
    /\ result = NoResult

IngestNext ==
    \/ \E inp \in Inputs : IngestBegin(inp)
    \/ /\ pc = "loop"
       /\ Len(table.lines) < MaxRows
       /\ \E line \in Lines(table.header) :
          IF Resolves(cache, table.header, line)
          THEN \E script \in IngestScripts, w \in IngestWrites :
                  IngestLine(line, script, w)
          ELSE IngestLine(line, NoScript, "written")
    \/ IngestEnd

IngestSpec == IngestInit /\ [][IngestNext]_vars

----------------------------------------------------------------------------
(* Properties of the resolver *)

IsCall == last'.called /\ vars' # vars
IsRestart == ~last'.called /\ vars' # vars

NonFailures(script) == {i \in DOMAIN script : ~script[i].err}

\* The first attempt that completes without error, 0 when none does
FirstOk(script) ==
    IF NonFailures(script) = {} THEN 0
    ELSE CHOOSE i \in NonFailures(script) : \A j \in NonFailures(script) : i <= j

LastMissed == last.called /\ ~last.hit /\ Key(last.ndc) # << >>

\* C2: a call with the same code as the call before it issues no remote request
\* and returns what that call returned; any call whose key is already cached
\* issues no remote request.
C2_SecondCallSameResult ==
    [][ IsCall =>
          /\ (Key(last'.ndc) \in DOMAIN cache => last'.requests = 0)
          /\ (last.called /\ last'.ndc = last.ndc /\ Key(last.ndc) # << >>
                => last'.requests = 0 /\ last'.ret = last.ret) ]_vars

\* C3: a call that misses the cache makes at most 3 requests and stops at the
\* first that completes without error; when attempts 1 and 2 fail and attempt 3
\* carries an identifier, the call returns it after exactly one insertion and
\* exactly one persistence of the cache.
C3_BoundedRetry ==
    LastMissed =>
        /\ last.requests >= 1 /\ last.requests <= 3
        /\ last.requests =
              (IF \A i \in 1..3 : last.script[i].err THEN 3 ELSE FirstOk(last.script))
        /\ ( /\ last.script[1].err /\ last.script[2].err /\ ~last.script[3].err
             /\ last.script[3].t = "list" /\ last.script[3].v # << >>
             /\ last.script[3].v[1] # << >>
             => /\ last.ret = Str(last.script[3].v[1])
                /\ last.inserts = 1
                /\ last.saves = 1 )

C3_Witness ==
    /\ LastMissed
    /\ last.script[1].err /\ last.script[2].err
    /\ last.script[3] = Body("list", <<ID1>>)
    /\ last.ret = Str(ID1) /\ last.requests = 3 /\ last.saves = 1

NotFoundCached(c, k) == k \in DOMAIN c /\ c[k] = NoneV

AllFailed == LastMissed /\ \A i \in 1..3 : last.script[i].err

\* C4 as stated: three failed attempts cache "not found" and return it; that
\* entry then stays, in this process and in every later one, and no call for
\* the code issues a request again.
C4_NegativeForever ==
    [][ /\ (AllFailed' =>
              last'.ret = NoneV /\ NotFoundCached(cache', Key(last'.ndc)))
        /\ \A k \in DOMAIN cache :
              NotFoundCached(cache, k) =>
                  /\ NotFoundCached(cache', k)
                  /\ (IsCall /\ Key(last'.ndc) = k => last'.requests = 0) ]_vars

\* C4 amended: the entry stays for the life of the process; a later process has
\* it exactly when the file it loads holds it, and the file holds it after the
\* call whenever that call's write succeeded.
C4_NegativeWhilePersisted ==
    [][ /\ (AllFailed' =>
              /\ last'.ret = NoneV /\ NotFoundCached(cache', Key(last'.ndc))
              /\ (last'.w = "written" =>
                     /\ file'.kind = "json"
                     /\ Key(last'.ndc) \in DOMAIN file'.text
                     /\ file'.text[Key(last'.ndc)] = <<"null">>))
        /\ \A k \in DOMAIN cache :
              NotFoundCached(cache, k) /\ ~IsRestart =>
                  /\ NotFoundCached(cache', k)
                  /\ (IsCall /\ Key(last'.ndc) = k =>
                         last'.requests = 0 /\ last'.ret = NoneV)
        /\ (IsRestart =>
              \A k \in DOMAIN cache \cup DOMAIN cache' \cup DOMAIN file.text :
                  NotFoundCached(cache', k) <=>
                      /\ file.kind = "json" /\ k \in DOMAIN file.text
                      /\ file.text[k] = <<"null">>) ]_vars

\* A later process holds a reloaded "not found" and is asked for that code
C4_Witness ==
    /\ last.called /\ last.hit /\ last.ret = NoneV /\ last.requests = 0
    /\ NotFoundCached(loaded, Key(last.ndc))

\* C5 as stated: every call with a non-empty key persists the cache
C5_EveryCallSaves ==
    last.called /\ Key(last.ndc) # << >> => last.saves >= 1

\* C5 amended: a call that misses the cache persists the entire cache exactly
\* once, and a call that hits it persists nothing.
C5_SavesOnMissOnly ==
    /\ (LastMissed =>
          /\ last.saves = 1
          /\ (last.w = "written" => file = JsonFile(cache) /\ LoadCache(file) = cache))
    /\ (last.called /\ last.hit => last.saves = 0)

C5_Witness ==
    /\ LastMissed /\ last.saves = 1 /\ last.w = "written"
    /\ file = JsonFile(cache)
    /\ Cardinality(DOMAIN cache) = 2
    /\ \E k \in DOMAIN cache : cache[k] = NoneV

FirstBody == last.script[FirstOk(last.script)]

\* C8 as stated: the identifier under idGroup.rxnormId is returned whether it
\* comes as a string or as an array (its first element), "not found" only when
\* the field is absent or empty, and the returned value is the cached one.
C8_StringOrArray ==
    LastMissed /\ FirstOk(last.script) # 0 =>
        /\ (FirstBody.t \in {"str", "list"} /\ FirstBody.v # << >>
              => last.ret = Str(FirstBody.v[1]))
        /\ (last.ret = NoneV => FirstBody.t = "absent" \/ FirstBody.v = << >>)
        /\ cache[Key(last.ndc)] = last.ret

\* C8 amended: the first element is returned when rxnormId is a non-empty
\* array; "not found" is returned when it is absent, an empty array or not an
\* array (a bare string included); the returned value is the cached one.
C8_ArrayOnly ==
    LastMissed /\ FirstOk(last.script) # 0 =>
        /\ (FirstBody.t = "list" /\ FirstBody.v # << >>
              => last.ret = Str(FirstBody.v[1]))
        /\ (FirstBody.t # "list" \/ FirstBody.v = << >> => last.ret = NoneV)
        /\ cache[Key(last.ndc)] = last.ret

C8_Witness ==
    /\ LastMissed /\ FirstOk(last.script) = 2
    /\ FirstBody = Body("list", <<ID1, ID2>>)
    /\ last.ret = Str(ID1)
    /\ cache[Key(last.ndc)] = Str(ID1)

EmptyAfterNormalizing(code) == \A i \in 1..Len(code) : code[i] \in {"-", " "}

\* C9: a call whose input is empty once dashes and surrounding whitespace are
\* removed returns "not found", issues no request, and changes neither the
\* in-memory cache nor the file.
C9_EmptyInputNoEffect ==
    [][ IsCall /\ EmptyAfterNormalizing(last'.ndc) =>
          /\ last'.ret = NoneV /\ ~last'.raised
          /\ last'.requests = 0 /\ last'.inserts = 0 /\ last'.saves = 0
          /\ cache' = cache
          /\ file' = file ]_vars

C9_Witness ==
    /\ last.called /\ last.ndc = <<" ", "-", " ">>
    /\ last.ret = NoneV
    /\ cache # EmptyDict /\ file.kind = "json"

\* C10: whichever writes fail, every call returns what it returns, and issues
\* the requests it issues, in the process whose writes all succeed.
C10_WriteFailureInvisible ==
    last.called =>
        /\ ~last.raised /\ ~ideal.raised
        /\ last.ret = ideal.ret
        /\ last.requests = ideal.requests
        /\ cache = ideal.cache

\* A hit served after a write that failed
C10_Witness ==
    /\ last.called /\ last.hit /\ Truthy(last.ret)
    /\ file.kind # "json"
    /\ last.ret = ideal.ret

----------------------------------------------------------------------------
(* Properties of the ingestion *)

\* The stripped cell of the first of the named columns that the line fills
\* with something, << >> when there is none
Field(header, line, names) ==
    LET filled(n) == {j \in 1..Len(header) :
                        /\ j <= Len(line)
                        /\ Strip(header[j]) = n
                        /\ Strip(line[j]) # << >>}
        found == {i \in 1..Len(names) : filled(names[i]) # {}}
        first == CHOOSE i \in found : \A k \in found : i <= k
    IN  IF found = {} THEN << >>
        ELSE Strip(line[CHOOSE j \in filled(names[first]) : TRUE])

ContractOf(line) ==
    Field(table.header, line, <<CONTRACT_ID, PARENT_ORGANIZATION_CONTRACT_ID>>)
PlanOf(line) == Field(table.header, line, <<PLAN_ID, PBP>>)
CodeOf(line) == RemoveDashes(Field(table.header, line, <<NDC, NDC_11>>))
TierOf(line) == Field(table.header, line, <<TIER, FORMULARY_TIER>>)

Complete(line) ==
    /\ ContractOf(line) # << >> /\ PlanOf(line) # << >>
    /\ CodeOf(line) # << >> /\ TierOf(line) # << >>

\* The resolver has an identifier for the code
Resolved(code) ==
    /\ Strip(code) \in DOMAIN cache
    /\ cache[Strip(code)].some
    /\ cache[Strip(code)].s # << >>

Qualifies(line) == Complete(line) /\ Resolved(CodeOf(line))

\* The rows the reader has streamed
Streamed == SelectSeq(table.lines, LAMBDA l : l # << >>)

\* C1: a rule is written for a streamed row exactly when its contract, plan,
\* code (dashes removed) and tier are non-empty and the resolver has an
\* identifier for the code; on return rows_read is the number of rows streamed
\* and rows_written the number of such rows, which is the number of data lines
\* of the output.
C1_RuleIffComplete ==
    pc \in {"loop", "returned"} =>
        LET rows == Streamed
            kept == SelectSeq(rows, Qualifies)
        IN  /\ n_in = Len(rows)
            /\ n_out = Len(kept)
            /\ Len(out_file.lines) = 1 + Len(kept)
            /\ out_file.lines[1] = HEADER
            /\ \A i \in 1..Len(kept) :
                  /\ out_file.lines[i + 1].plan_id =
                        ContractOf(kept[i]) \o <<"-">> \o PlanOf(kept[i])
                  /\ out_file.lines[i + 1].tier = TierOf(kept[i])
                  /\ out_file.lines[i + 1].rxcui = cache[Strip(CodeOf(kept[i]))].s
            /\ (pc = "returned" =>
                  /\ result.kind = "returned"
                  /\ result.rows_read = Len(rows)
                  /\ result.rows_written = Len(kept))

\* Two rows read and one written: the other is complete but its code has no
\* identifier, or lacks a field
C1_Witness ==
    /\ pc = "returned"
    /\ result.rows_read = 2 /\ result.rows_written = 1
    /\ Len(out_file.lines) = 2
    /\ \E i \in 1..Len(table.lines) :
          Complete(table.lines[i]) /\ ~Resolved(CodeOf(table.lines[i]))

\* C6: an archive without a formulary table makes the call raise, and the
\* call leaves the output file as it was.
C6_NoTableWritesNothing ==
    [][ result.kind = "none" /\ result'.kind = "raised" /\ table' = NoTable
          => out_file' = out_file ]_vars

\* C7: no data line makes the ingestion raise; each is counted in rows_read,
\* and a line that is short, long or lacks a required field is not counted in
\* rows_written.
C7_NoRowRaises ==
    /\ (result.kind = "raised" => table.lines = << >>)
    /\ (pc \in {"loop", "returned"} =>
          /\ n_in = Len(Streamed)
          /\ n_out <= Len(SelectSeq(Streamed, Complete)))

====
